---- MODULE Spec2Model ----
(***************************************************************************)
(* A model of src/deepdream.py: the spatial jitter, the image pyramid, the *)
(* Gaussian smoothing filter, the gradient ascent step, the octave driver  *)
(* (deep_dream) and the sequence mode (deep_dream_video).                  *)
(*                                                                         *)
(* Numbers.  Pixel values are float32 in the program.  Here a real x is    *)
(* the integer round(x * Scale), Scale = 1000, and the one non-finite      *)
(* value the program can produce, NaN (0/0 in gradient_ascent), is the     *)
(* integer NaN, outside the range of every finite value of the model.      *)
(*                                                                         *)
(* Arrays.  A numpy image of shape (H, W, C) is a sequence of H rows, each *)
(* a sequence of W pixels, each a sequence of C numbers: img[y][x][c].     *)
(* A torch tensor of shape (N, C, H, W) is t[n][c][y][x].  Indices are     *)
(* 1-based where Python's are 0-based.                                     *)
(***************************************************************************)
EXTENDS Integers, Sequences, FiniteSets, TLC

VARIABLES
    \* harness of the pure functions (shift, pyramid, ascent step)
    fn_pc, fn_arg, fn_ret,
    \* GaussianSmoothing: the module under construction, its input and output
    gs, gs_in, gs_out,
    \* deep_dream_video: the frame, its index, the file last written
    pc, frame, frame_idx, written,
    \* deep_dream: the network, the settings of lines 322-326 and the locals
    net, pyramid_size, n_iter,
    img, base_img, img_pyramid, detail, best_img,
    octave, octave_base, input_tensor, i, h_shift, w_shift,
    \* history: how many times the statistics of preprocess are applied in
    \* frame; the calls of the current iteration; the result and the base of
    \* the octave last left; the gradient of the last step's loss and the
    \* gradient its update was made from
    frame_rep, log, left, loss_grad, used_grad

fnVars == <<fn_pc, fn_arg, fn_ret>>
gsVars == <<gs, gs_in, gs_out>>
videoVars == <<frame, frame_idx, written, frame_rep>>
configVars == <<net, pyramid_size, n_iter>>
octaveVars == <<img, base_img, img_pyramid, detail, best_img, octave, octave_base, left>>
iterVars == <<input_tensor, i, h_shift, w_shift, log, loss_grad, used_grad>>
dreamVars == <<pc, videoVars, configVars, octaveVars, iterVars>>
vars == <<fnVars, gsVars, dreamVars>>

(***************************************************************************)
(* Bounds of the model                                                     *)
(***************************************************************************)
MaxShiftH == 3      \* largest height of a tensor given to the jitter alone
MaxShiftW == 3      \* largest width of a tensor given to the jitter alone
MaxShift == 4       \* largest |offset| given to the jitter alone (> MaxShiftH)
MaxPyrDim == 4      \* largest height and width of an image given to the pyramid alone
MaxOctaves == 3     \* largest num_octaves given to the pyramid alone
MaxCnt == 3         \* largest iteration index given to the smoothing and the step alone
MaxGradDim == 6     \* largest height and width of a gradient given to the smoothing alone
MaxDim == 8         \* largest height and width of a frame (the program's: 600 wide)
MaxPyramidSize == 2 \* largest pyramid_size (the program's: 4)
MaxIter == 2        \* largest n_iter (the program's: 10)
MaxJitter == 1      \* jitter (the program's: 100)
MaxFrames == 2      \* frames of deep_dream_video (the program's: 100)

(***************************************************************************)
(* The variables of deep_dream while another part is examined alone        *)
(***************************************************************************)
DreamIdle ==
    /\ pc = "idle" /\ frame = <<>> /\ frame_idx = 0 /\ written = <<>>
    /\ net = "none" /\ pyramid_size = 0 /\ n_iter = 0
    /\ img = <<>> /\ base_img = <<>> /\ img_pyramid = <<>> /\ detail = <<>>
    /\ best_img = <<>> /\ octave = 0 /\ octave_base = <<>> /\ input_tensor = <<>>
    /\ i = 0 /\ h_shift = 0 /\ w_shift = 0
    /\ frame_rep = 0 /\ log = <<>> /\ left = <<>> /\ loss_grad = <<>> /\ used_grad = <<>>

(***************************************************************************)
(* Arithmetic                                                              *)
(***************************************************************************)
Scale == 1000
NaN == 999999999

Abs(x) == IF x < 0 THEN -x ELSE x

\* a / b rounded to the nearest integer (half away from floor), b > 0
RDiv(a, b) == (2 * a + b) \div (2 * b)

IsNaN(x) == x = NaN

Min(a, b) == IF a < b THEN a ELSE b
Max(a, b) == IF a > b THEN a ELSE b

\* cvRound(n / d): to the nearest integer, a half to the even one (d > 0)
RoundHalfEven(n, d) ==
    LET q == n \div d
        r == n % d
    IN  IF 2 * r < d THEN q
        ELSE IF 2 * r > d THEN q + 1
        ELSE IF q % 2 = 0 THEN q ELSE q + 1

\* float addition, subtraction: NaN is absorbing
FAdd(a, b) == IF IsNaN(a) \/ IsNaN(b) THEN NaN ELSE a + b
FSub(a, b) == IF IsNaN(a) \/ IsNaN(b) THEN NaN ELSE a - b

(***************************************************************************)
(* Shapes                                                                  *)
(***************************************************************************)
\* numpy image (H, W, C)
ImgH(image) == Len(image)
ImgW(image) == IF Len(image) = 0 THEN 0 ELSE Len(image[1])
ImgC(image) == IF Len(image) = 0 \/ Len(image[1]) = 0 THEN 0 ELSE Len(image[1][1])
ImgShape(image) == <<ImgH(image), ImgW(image), ImgC(image)>>

\* torch tensor (N, C, H, W)
TenN(t) == Len(t)
TenC(t) == Len(t[1])
TenH(t) == Len(t[1][1])
TenW(t) == Len(t[1][1][1])
TenShape(t) == <<TenN(t), TenC(t), TenH(t), TenW(t)>>

(***************************************************************************)
(* Spatial jitter: random_circular_spatial_shift                           *)
(***************************************************************************)
\* the .grad of a tensor that has none (None), as a gradient of length 0
NoGrad == <<>>

\* torch.roll(data, shifts=(hs, ws), dims=(2, 3)): the element at (y, x)
\* moves to ((y + hs) mod H, (x + ws) mod W)
Roll(data, hs, ws) ==
    [n \in 1..TenN(data) |->
      [c \in 1..TenC(data) |->
        [y \in 1..TenH(data) |->
          [x \in 1..TenW(data) |->
            data[n][c][((y - 1 - hs) % TenH(data)) + 1]
                       [((x - 1 - ws) % TenW(data)) + 1]]]]]

\* a plausible slip: the undo negates only the vertical offset
random_circular_spatial_shift_half_undo(tensor, dh, dw, should_undo) ==
    [data |-> Roll(tensor.data, IF should_undo THEN -dh ELSE dh, dw),
     grad |-> NoGrad,
     requires_grad |-> TRUE]

\* lines 44-51.  The result is a new tensor (torch.roll under no_grad): it
\* has no .grad, and requires_grad is set on it.
random_circular_spatial_shift(tensor, dh, dw, should_undo) ==
    LET hs == IF should_undo THEN -dh ELSE dh
        ws == IF should_undo THEN -dw ELSE dw
    IN  [data |-> Roll(tensor.data, hs, ws),
         grad |-> NoGrad,
         requires_grad |-> TRUE]

(***************************************************************************)
(* The jitter alone: draw a tensor and two offsets, shift, undo            *)
(***************************************************************************)
\* a tensor of shape (1, c, h, w) whose elements are all different (k = 0)
\* or alternate between two values along the flattened index (k = 1)
ShiftTensor(c, h, w, k) ==
    << [cc \in 1..c |->
         [y \in 1..h |->
           [x \in 1..w |->
             LET idx == ((cc - 1) * h + (y - 1)) * w + (x - 1)
             IN  IF k = 0 THEN idx ELSE idx % 2]] ] >>

ShiftInit ==
    /\ DreamIdle
    /\ gs = <<>> /\ gs_in = <<>> /\ gs_out = <<>>
    /\ fn_pc = "shift"
    /\ \E c \in {1, 3}, h \in 1..MaxShiftH, w \in 1..MaxShiftW, k \in 0..1,
          dh \in -MaxShift..MaxShift, dw \in -MaxShift..MaxShift :
          fn_arg = [tensor |-> [data |-> ShiftTensor(c, h, w, k),
                                grad |-> NoGrad, requires_grad |-> FALSE],
                    h_shift |-> dh, w_shift |-> dw]
    /\ fn_ret = <<>>

\* random_circular_spatial_shift(t, dh, dw)
ShiftCall ==
    /\ fn_pc = "shift"
    /\ fn_ret' = <<random_circular_spatial_shift(
                       fn_arg.tensor, fn_arg.h_shift, fn_arg.w_shift, FALSE)>>
    /\ fn_pc' = "undo"
    /\ UNCHANGED <<fn_arg, gsVars, dreamVars>>

\* random_circular_spatial_shift(result, dh, dw, should_undo=True)
UndoCall ==
    /\ fn_pc = "undo"
    /\ fn_ret' = Append(fn_ret, random_circular_spatial_shift(
                       fn_ret[1], fn_arg.h_shift, fn_arg.w_shift, TRUE))
    /\ fn_pc' = "done"
    /\ UNCHANGED <<fn_arg, gsVars, dreamVars>>

ShiftNext == ShiftCall \/ UndoCall

SpecShift == ShiftInit /\ [][ShiftNext]_vars

\* C1: shifting by (dh, dw) and then undoing with the same (dh, dw) gives
\* back a tensor equal to the original at every position, for offsets of
\* either sign and of any magnitude (wrap-around, nothing zero-filled).
JitterRoundTrip ==
    fn_pc = "done" =>
        /\ fn_ret[2].data = fn_arg.tensor.data
        /\ TenShape(fn_ret[1].data) = TenShape(fn_arg.tensor.data)

\* the shift really moved something, with a negative offset and an offset
\* larger than the tensor
JitterRoundTripWitness ==
    /\ fn_pc = "done"
    /\ fn_arg.h_shift > TenH(fn_arg.tensor.data)
    /\ fn_arg.w_shift < 0
    /\ fn_ret[1].data # fn_arg.tensor.data
    /\ fn_ret[2].data = fn_arg.tensor.data

(***************************************************************************)
(* cv.resize (bilinear, the default interpolation) and the image pyramid   *)
(***************************************************************************)
\* One axis of cv.resize's INTER_LINEAR: destination index d (0-based) of an
\* axis scaled by sn/sd (source size over destination size) reads source
\* index floor(f) with weight 1 - frac(f) and its successor with frac(f),
\* f = (d + 0.5) * sn/sd - 0.5, clamped to the source's [0, size - 1].
\* The result: the two source indices (1-based) and the weight of the
\* second over den.
LinearTap(d, sn, sd, size) ==
    LET den == 2 * sd
        num == (2 * d + 1) * sn - sd
        s == num \div den
        a == num - s * den
    IN  IF s < 0 THEN [i0 |-> 1, i1 |-> 1, a |-> 0, den |-> den]
        ELSE IF s >= size - 1 THEN [i0 |-> size, i1 |-> size, a |-> 0, den |-> den]
        ELSE [i0 |-> s + 1, i1 |-> s + 2, a |-> a, den |-> den]

\* the weighted mean of four samples, NaN if one of them is
Blend(v00, v01, v10, v11, tx, ty) ==
    IF IsNaN(v00) \/ IsNaN(v01) \/ IsNaN(v10) \/ IsNaN(v11) THEN NaN
    ELSE RDiv((ty.den - ty.a) * ((tx.den - tx.a) * v00 + tx.a * v01)
               + ty.a * ((tx.den - tx.a) * v10 + tx.a * v11),
              tx.den * ty.den)

\* cv.resize to (dh, dw) with per-axis scale factors sxn/sxd and syn/syd
ResizeScaled(image, dh, dw, sxn, sxd, syn, syd) ==
    [y \in 1..dh |->
      [x \in 1..dw |->
        [c \in 1..ImgC(image) |->
          LET tx == LinearTap(x - 1, sxn, sxd, ImgW(image))
              ty == LinearTap(y - 1, syn, syd, ImgH(image))
          IN  Blend(image[ty.i0][tx.i0][c], image[ty.i0][tx.i1][c],
                    image[ty.i1][tx.i0][c], image[ty.i1][tx.i1][c], tx, ty)]]]

\* cv.resize(image, (w, h)): the destination size is given, the scale is the
\* ratio of the sizes
ResizeTo(image, w, h) ==
    ResizeScaled(image, h, w, ImgW(image), w, ImgH(image), h)

\* cv.resize(image, (0, 0), fx=r, fy=r), r = scale[1] / scale[2]: the size is
\* cvRound(size * r) and the scale is 1 / r.  (cv.resize rejects a size that
\* rounds to 0; every ratio of the model is above 1/2, where none does.)
ResizeBy(image, scale) ==
    ResizeScaled(image,
                 RoundHalfEven(ImgH(image) * scale[1], scale[2]),
                 RoundHalfEven(ImgW(image) * scale[1], scale[2]),
                 scale[2], scale[1], scale[2], scale[1])

RECURSIVE PyramidLoopFromFirst(_, _, _)
PyramidLoopFromFirst(pyramid, todo, octave_scale) ==
    IF todo <= 0 THEN pyramid
    ELSE PyramidLoopFromFirst(
             Append(pyramid, ResizeBy(pyramid[1], octave_scale)),
             todo - 1, octave_scale)

\* a plausible slip: every level is resized from the first image
create_image_pyramid_from_first(image, num_octaves, octave_scale) ==
    PyramidLoopFromFirst(<<image>>, num_octaves - 1, octave_scale)

\* lines 39-40: range(num_octaves - 1) appends resize(pyramid[-1]);
\* the range is empty when num_octaves <= 1
RECURSIVE PyramidLoop(_, _, _)
PyramidLoop(pyramid, todo, octave_scale) ==
    IF todo <= 0 THEN pyramid
    ELSE PyramidLoop(
             Append(pyramid,
                    ResizeBy(pyramid[Len(pyramid)], octave_scale)),
             todo - 1, octave_scale)

\* lines 37-41
create_image_pyramid(image, num_octaves, octave_scale) ==
    PyramidLoop(<<image>>, num_octaves - 1, octave_scale)

(***************************************************************************)
(* The pyramid alone: draw an image, a level count and a ratio, build      *)
(***************************************************************************)
\* 1/1.4 (deep_dream) and 0.7, as numerator and denominator
Ratios == {<<5, 7>>, <<7, 10>>}

\* an (h, w, 3) image in display range: k = 0 varied, k = 1 a checkerboard
\* of black and white, k = 2 flat mid-grey
TestImage(h, w, k) ==
    [y \in 1..h |->
      [x \in 1..w |->
        [c \in 1..3 |->
          IF k = 0 THEN ((y * 7 + x * 3 + c * 5) * 53) % (Scale + 1)
          ELSE IF k = 1 THEN (IF (x + y + c) % 2 = 0 THEN 0 ELSE Scale)
          ELSE Scale \div 2]]]

PyramidInit ==
    /\ DreamIdle
    /\ gs = <<>> /\ gs_in = <<>> /\ gs_out = <<>>
    /\ fn_pc = "build"
    /\ \E h \in 1..MaxPyrDim, w \in 1..MaxPyrDim, k \in 0..1,
          n \in 0..MaxOctaves, r \in Ratios :
          fn_arg = [img |-> TestImage(h, w, k), num_octaves |-> n,
                    octave_scale |-> r]
    /\ fn_ret = <<>>

\* create_image_pyramid(image, num_octaves, octave_scale).  The function has
\* no raise statement: it returns for every level count.
CreateImagePyramidCall ==
    /\ fn_pc = "build"
    /\ fn_ret' = [outcome |-> "returned",
                  value |-> create_image_pyramid(
                      fn_arg.img, fn_arg.num_octaves, fn_arg.octave_scale)]
    /\ fn_pc' = "done"
    /\ UNCHANGED <<fn_arg, gsVars, dreamVars>>

PyramidNext == CreateImagePyramidCall

SpecPyramid == PyramidInit /\ [][PyramidNext]_vars

\* C3: building a pyramid with fewer than one level ends in an
\* InvalidConfigError (and nothing is computed before it).
PyramidRejectsZeroLevels ==
    (fn_pc = "done" /\ fn_arg.num_octaves < 1) =>
        fn_ret.outcome = "InvalidConfigError"

\* C4: for levels >= 1 the pyramid has exactly `levels` images, the first
\* is the input unchanged, every later one is the one before it resized by
\* the ratio, and for a ratio below 1 heights and widths never grow.
PyramidStructure ==
    (fn_pc = "done" /\ fn_arg.num_octaves >= 1) =>
        LET pyr == fn_ret.value
            r == fn_arg.octave_scale
        IN  /\ fn_ret.outcome = "returned"
            /\ Len(pyr) = fn_arg.num_octaves
            /\ pyr[1] = fn_arg.img
            /\ \A k \in 2..Len(pyr) :
                  /\ pyr[k] = ResizeBy(pyr[k - 1], r)
                  /\ ImgH(pyr[k]) = RoundHalfEven(ImgH(pyr[k - 1]) * r[1], r[2])
                  /\ ImgW(pyr[k]) = RoundHalfEven(ImgW(pyr[k - 1]) * r[1], r[2])
                  /\ ImgC(pyr[k]) = ImgC(fn_arg.img)
                  /\ r[1] < r[2] =>
                        /\ ImgH(pyr[k]) <= ImgH(pyr[k - 1])
                        /\ ImgW(pyr[k]) <= ImgW(pyr[k - 1])

\* three levels of strictly decreasing height, the third not what resizing
\* the first would give
PyramidStructureWitness ==
    /\ fn_pc = "done"
    /\ fn_arg.num_octaves = 3
    /\ Len(fn_ret.value) = 3
    /\ ImgH(fn_ret.value[3]) < ImgH(fn_ret.value[2])
    /\ ImgH(fn_ret.value[2]) < ImgH(fn_ret.value[1])
    /\ fn_ret.value[3] # ResizeBy(fn_ret.value[1], fn_arg.octave_scale)

(***************************************************************************)
(* GaussianSmoothing                                                       *)
(*                                                                         *)
(* A kernel tensor is a product of one-dimensional Gaussian factors        *)
(*   1/(std sqrt(2 pi)) exp(-((grid_d - mean)/std)^2 / 2)                  *)
(* over the 9x9 grid.  It is kept as the factors themselves: for each of   *)
(* the two grid dimensions, the stds (in 1/Scale) of the factors that were *)
(* multiplied in, in order.  The normalized 2-D Gaussian of standard       *)
(* deviation s is the kernel with exactly the one factor s in each         *)
(* dimension, divided by its sum; more factors in a dimension give a       *)
(* narrower Gaussian (the precisions 1/std^2 add up).                      *)
(*                                                                         *)
(* Python objects.  gs.heap is the tensors allocated so far and a tensor   *)
(* name (kernel, the entries of kernels) holds an index into it, so that   *)
(* two names of one tensor see each other's in-place updates.  kernel = 0  *)
(* is the int 1 of line 206.                                               *)
(***************************************************************************)
KERNEL_SIZE == 9

\* line 272: sigma = ((cnt + 1) / 10) * 2.0 + .5
SigmaOf(cnt) == ((cnt + 1) * 2 * Scale) \div 10 + Scale \div 2

\* lines 194-213: the state at the head of the loop over the sigmas
GaussianSmoothingEnter(channels, kernel_size, sigma) ==
    [pc |-> "kernels",
     channels |-> channels,
     pad |-> kernel_size \div 2,
     kernel_size |-> <<kernel_size, kernel_size>>,
     sigmas |-> <<sigma \div 2, sigma, 2 * sigma>>,
     heap |-> <<>>,
     kernel |-> 0,
     kernels |-> <<>>,
     s |-> 1,
     d |-> 1,
     prepared_kernels |-> <<>>,
     k |-> 1,
     weight1 |-> <<>>, weight2 |-> <<>>, weight3 |-> <<>>,
     groups |-> 0]

\* a kernel tensor times one more factor of std along dimension d
TimesFactor(t, d, std) ==
    [t EXCEPT !.factors[d] = Append(@, std)]

\* lines 216-220, one pass of the inner loop: kernel *= factor, then
\* kernels.append(kernel).  On the int 1 the product is a new tensor; on a
\* tensor, *= multiplies it in place and kernel keeps naming it.
KernelLoopStep(g) ==
    LET std == g.sigmas[g.s]
        fresh == [factors |-> [dd \in 1..2 |-> IF dd = g.d THEN <<std>> ELSE <<>>],
                  normalized |-> FALSE,
                  shape |-> g.kernel_size]
        heap1 == IF g.kernel = 0 THEN Append(g.heap, fresh)
                 ELSE [g.heap EXCEPT ![g.kernel] = TimesFactor(@, g.d, std)]
        kernel1 == IF g.kernel = 0 THEN Len(heap1) ELSE g.kernel
        last == g.s = Len(g.sigmas) /\ g.d = 2
    IN  [g EXCEPT !.heap = heap1,
                  !.kernel = kernel1,
                  !.kernels = Append(@, kernel1),
                  !.d = IF g.d = 2 THEN 1 ELSE 2,
                  !.s = IF g.d = 2 THEN g.s + 1 ELSE g.s,
                  !.pc = IF last THEN "prepare" ELSE "kernels"]

\* lines 223-231, one pass: kernel / sum(kernel) is a new tensor, viewed as
\* (1, 1, 9, 9) and repeated to (channels, 1, 9, 9)
PrepareStep(g) ==
    LET src == g.heap[g.kernels[g.k]]
        prepared == [factors |-> src.factors,
                     normalized |-> TRUE,
                     shape |-> <<g.channels, 1>> \o src.shape]
    IN  [g EXCEPT !.prepared_kernels = Append(@, prepared),
                  !.k = g.k + 1,
                  !.pc = IF g.k = Len(g.kernels) THEN "register" ELSE "prepare"]

\* lines 233-237
RegisterStep(g) ==
    [g EXCEPT !.weight1 = g.prepared_kernels[1],
              !.weight2 = g.prepared_kernels[2],
              !.weight3 = g.prepared_kernels[3],
              !.groups = g.channels,
              !.pc = "ready"]

RECURSIVE GaussianSmoothingRun(_)
GaussianSmoothingRun(g) ==
    IF g.pc = "kernels" THEN GaussianSmoothingRun(KernelLoopStep(g))
    ELSE IF g.pc = "prepare" THEN GaussianSmoothingRun(PrepareStep(g))
    ELSE IF g.pc = "register" THEN GaussianSmoothingRun(RegisterStep(g))
    ELSE g

\* GaussianSmoothing(channels, kernel_size, sigma): lines 194-237
GaussianSmoothingInit(channels, kernel_size, sigma) ==
    GaussianSmoothingRun(GaussianSmoothingEnter(channels, kernel_size, sigma))

\* The gradients of the model are constant over each channel plane: planes[c]
\* is the value of plane c, of h rows and w columns.  Reflect padding keeps
\* such a plane constant, and its convolution with a kernel that was divided
\* by its sum (line 225) is the plane's value times 1.
ConvPlane(v, weight) == v

\* lines 247-251: pad by self.pad on the four sides, convolve with each of
\* the three weights (the result loses kernel size - 1 rows and columns),
\* add the three
GaussianSmoothingForward(module, input) ==
    LET ph == input.h + 2 * module.pad
        pw == input.w + 2 * module.pad
        grad1 == [c \in 1..Len(input.planes) |-> ConvPlane(input.planes[c], module.weight1)]
        grad2 == [c \in 1..Len(input.planes) |-> ConvPlane(input.planes[c], module.weight2)]
        grad3 == [c \in 1..Len(input.planes) |-> ConvPlane(input.planes[c], module.weight3)]
    IN  [planes |-> [c \in 1..Len(input.planes) |->
                        IF IsNaN(input.planes[c]) THEN NaN
                        ELSE grad1[c] + grad2[c] + grad3[c]],
         h |-> ph - (module.weight1.shape[3] - 1),
         w |-> pw - (module.weight1.shape[4] - 1)]

(***************************************************************************)
(* The smoothing alone: construct the module step by step, then apply it   *)
(***************************************************************************)
\* gradients of the network, one value per channel plane
NetGrads == {<<0, 0, 0>>, <<1000, 1000, 1000>>, <<2000, -1000, -1000>>,
             <<-300, 0, 700>>}

\* F.pad(mode='reflect') needs the padding to be smaller than the side
MinDim == KERNEL_SIZE \div 2 + 1

SmoothInit ==
    /\ DreamIdle
    /\ fn_pc = "idle" /\ fn_arg = <<>> /\ fn_ret = <<>>
    /\ \E cnt \in 0..MaxCnt :
          gs = GaussianSmoothingEnter(3, KERNEL_SIZE, SigmaOf(cnt))
    /\ \E g \in NetGrads, h \in MinDim..MaxGradDim, w \in MinDim..MaxGradDim :
          gs_in = [planes |-> g, h |-> h, w |-> w]
    /\ gs_out = <<>>

KernelLoop ==
    /\ gs.pc = "kernels"
    /\ gs' = KernelLoopStep(gs)
    /\ UNCHANGED <<gs_in, gs_out, fnVars, dreamVars>>

Prepare ==
    /\ gs.pc = "prepare"
    /\ gs' = PrepareStep(gs)
    /\ UNCHANGED <<gs_in, gs_out, fnVars, dreamVars>>

Register ==
    /\ gs.pc = "register"
    /\ gs' = RegisterStep(gs)
    /\ UNCHANGED <<gs_in, gs_out, fnVars, dreamVars>>

Forward ==
    /\ gs.pc = "ready"
    /\ gs_out' = GaussianSmoothingForward(gs, gs_in)
    /\ gs' = [gs EXCEPT !.pc = "applied"]
    /\ UNCHANGED <<gs_in, fnVars, dreamVars>>

SmoothNext == KernelLoop \/ Prepare \/ Register \/ Forward

SpecSmooth == SmoothInit /\ [][SmoothNext]_vars

\* the normalized 2-D Gaussian of standard deviation std, one weight per channel
IsGaussian2D(weight, std) ==
    /\ weight.normalized
    /\ weight.factors = <<(<<std>>), (<<std>>)>>

\* C9: the constructed filter holds three distinct kernels, the normalized
\* 2-D Gaussians of standard deviation 0.5 sigma, sigma and 2 sigma, and its
\* output is the sum of the three convolutions and has the input's shape.
ThreeScaleSmoothing ==
    gs.pc \in {"ready", "applied"} =>
        /\ IsGaussian2D(gs.weight1, gs.sigmas[1])
        /\ IsGaussian2D(gs.weight2, gs.sigmas[2])
        /\ IsGaussian2D(gs.weight3, gs.sigmas[3])
        /\ gs.weight1.factors # gs.weight2.factors
        /\ gs.weight2.factors # gs.weight3.factors
        /\ gs.pc = "applied" =>
              /\ gs_out.h = gs_in.h /\ gs_out.w = gs_in.w
              /\ \A c \in 1..3 : gs_out.planes[c] = 3 * gs_in.planes[c]

\* what the construction does give: one and the same kernel three times,
\* the product of all six factors
ThreeTimesOneKernel ==
    gs.pc \in {"ready", "applied"} =>
        /\ gs.weight1 = gs.weight2 /\ gs.weight2 = gs.weight3
        /\ gs.weight1.factors = <<gs.sigmas, gs.sigmas>>
        /\ Len(gs.heap) = 1
        /\ gs.pc = "applied" =>
              /\ gs_out.h = gs_in.h /\ gs_out.w = gs_in.w
              /\ \A c \in 1..3 : gs_out.planes[c] = 3 * gs_in.planes[c]

(***************************************************************************)
(* Normalization statistics, adapters, bounds                              *)
(***************************************************************************)
IMAGENET_MEAN_1 == <<485, 456, 406>>
IMAGENET_STD_1 == <<229, 224, 225>>

\* lines 152-154: (image - mean) / std, per channel
preprocess(image) ==
    [y \in 1..ImgH(image) |->
      [x \in 1..ImgW(image) |->
        [c \in 1..ImgC(image) |->
          IF IsNaN(image[y][x][c]) THEN NaN
          ELSE RDiv((image[y][x][c] - IMAGENET_MEAN_1[c]) * Scale,
                    IMAGENET_STD_1[c])]]]

\* lines 142-145: ToTensor moves (H, W, C) to (C, H, W) (a float array is
\* not rescaled), unsqueeze(0) adds the batch axis; the tensor is new
pytorch_input_adapter(image) ==
    [data |-> << [c \in 1..ImgC(image) |->
                   [y \in 1..ImgH(image) |->
                     [x \in 1..ImgW(image) |-> image[y][x][c]]]] >>,
     grad |-> NoGrad,
     requires_grad |-> TRUE]

\* lines 148-149: element 0 of the batch, (C, H, W) moved to (H, W, C)
pytorch_output_adapter(tensor) ==
    [y \in 1..TenH(tensor.data) |->
      [x \in 1..TenW(tensor.data) |->
        [c \in 1..TenC(tensor.data) |-> tensor.data[1][c][y][x]]]]

\* line 254: -mean / std, per channel
lower_bound == [c \in 1..3 |-> RDiv((0 - IMAGENET_MEAN_1[c]) * Scale, IMAGENET_STD_1[c])]
\* line 255: (1 - mean) / std, per channel
upper_bound == [c \in 1..3 |-> RDiv((Scale - IMAGENET_MEAN_1[c]) * Scale, IMAGENET_STD_1[c])]

(***************************************************************************)
(* The gradient ascent step                                                *)
(***************************************************************************)
\* torch.min, torch.max of two numbers: a NaN operand is the result
TorchMin(a, b) == IF IsNaN(a) \/ IsNaN(b) THEN NaN ELSE Min(a, b)
TorchMax(a, b) == IF IsNaN(a) \/ IsNaN(b) THEN NaN ELSE Max(a, b)

\* line 266, loss.backward(): the gradient of this loss is stored in a
\* tensor that has no .grad and added to the .grad of one that has
Backward(grad, net_grad) ==
    IF grad = NoGrad THEN net_grad
    ELSE [c \in 1..Len(net_grad) |-> FAdd(grad[c], net_grad[c])]

\* line 276 and the quotient of line 277: smooth_grad / mean(|smooth_grad|).
\* The planes have the same size, so the mean is the mean of the planes'
\* absolute values; 0 / 0 is NaN.
NormalizedGrad(smooth) ==
    LET n == Len(smooth)
        total == Abs(smooth[1]) + Abs(smooth[2]) + Abs(smooth[3])
    IN  [c \in 1..n |->
            IF \E cc \in 1..n : IsNaN(smooth[cc]) THEN NaN
            ELSE IF total = 0 THEN NaN
            ELSE RDiv(smooth[c] * n * Scale, total)]

\* line 277: lr * normalized gradient, the amount added to plane c
StepOf(lr, normalized) ==
    [c \in 1..Len(normalized) |->
        IF IsNaN(normalized[c]) THEN NaN ELSE RDiv(lr * normalized[c], Scale)]

\* line 280: max(min(img, upper_bound), lower_bound), bounds of shape
\* (1, 3, 1, 1) broadcast over batch, rows and columns
Clamp(data) ==
    [n \in 1..TenN(data) |->
      [c \in 1..TenC(data) |->
        [y \in 1..TenH(data) |->
          [x \in 1..TenW(data) |->
            TorchMax(TorchMin(data[n][c][y][x], upper_bound[c]), lower_bound[c])]]]]

\* a plausible slip: the step without line 278, the gradient is left in place
gradient_ascent_keeps_grad(tensor, net_grad, lr, cnt) ==
    LET grad == Backward(tensor.grad, net_grad)
        smooth_grad == GaussianSmoothingForward(
                           GaussianSmoothingInit(3, KERNEL_SIZE, SigmaOf(cnt)),
                           [planes |-> grad, h |-> TenH(tensor.data), w |-> TenW(tensor.data)])
        step == StepOf(lr, NormalizedGrad(smooth_grad.planes))
    IN  [data |-> Clamp([n \in 1..TenN(tensor.data) |->
                          [c \in 1..TenC(tensor.data) |->
                            [y \in 1..TenH(tensor.data) |->
                              [x \in 1..TenW(tensor.data) |->
                                FAdd(tensor.data[n][c][y][x], step[c])]]]]),
         grad |-> grad,
         requires_grad |-> tensor.requires_grad]

\* lines 259-280.  net_grad is what the forward and backward pass of the
\* network leave for this loss (lines 260-266).  The record returned is the
\* tensor after the step (the step changes it in place).
gradient_ascent(tensor, net_grad, lr, cnt) ==
    LET grad == Backward(tensor.grad, net_grad)
        sigma == SigmaOf(cnt)
        smooth_grad == GaussianSmoothingForward(
                           GaussianSmoothingInit(3, KERNEL_SIZE, sigma),
                           [planes |-> grad, h |-> TenH(tensor.data), w |-> TenW(tensor.data)])
        step == StepOf(lr, NormalizedGrad(smooth_grad.planes))
        updated == [n \in 1..TenN(tensor.data) |->
                     [c \in 1..TenC(tensor.data) |->
                       [y \in 1..TenH(tensor.data) |->
                         [x \in 1..TenW(tensor.data) |->
                           FAdd(tensor.data[n][c][y][x], step[c])]]]]
    IN  [data |-> Clamp(updated),
         grad |-> [c \in 1..Len(grad) |-> 0],
         requires_grad |-> tensor.requires_grad]

(***************************************************************************)
(* The step alone: draw a tensor, a gradient, a learning rate, an index    *)
(***************************************************************************)
\* 0.09 (deep_dream), a large one, a negative one
LearningRates == {90, 5000, -90}

AscentInit ==
    /\ DreamIdle
    /\ gs = <<>> /\ gs_in = <<>> /\ gs_out = <<>>
    /\ fn_pc = "step"
    /\ \E k \in 0..2, g \in NetGrads, lr \in LearningRates, cnt \in 0..MaxCnt :
          fn_arg = [img |-> pytorch_input_adapter(preprocess(TestImage(MinDim, MinDim, k))),
                    net_grad |-> g, lr |-> lr, cnt |-> cnt]
    /\ fn_ret = <<>>

\* gradient_ascent(net, image, lr, cnt)
GradientAscentCall ==
    /\ fn_pc = "step"
    /\ fn_ret' = gradient_ascent(fn_arg.img, fn_arg.net_grad, fn_arg.lr, fn_arg.cnt)
    /\ fn_pc' = "done"
    /\ UNCHANGED <<fn_arg, gsVars, dreamVars>>

AscentNext == GradientAscentCall

SpecAscent == AscentInit /\ [][AscentNext]_vars

InBounds(data) ==
    \A n \in 1..TenN(data), c \in 1..TenC(data),
       y \in 1..TenH(data), x \in 1..TenW(data) :
        /\ ~IsNaN(data[n][c][y][x])
        /\ lower_bound[c] <= data[n][c][y][x]
        /\ data[n][c][y][x] <= upper_bound[c]

\* C2: after any ascent step, for any tensor, learning rate and gradient,
\* every element lies within [lower_bound[c], upper_bound[c]] of its channel.
ClampInvariant ==
    fn_pc = "done" => InBounds(fn_ret.data)

\* what the step does guarantee: the bounds hold whenever the gradient is
\* not zero everywhere
ClampInvariantNonzeroGrad ==
    (fn_pc = "done" /\ fn_arg.net_grad # <<0, 0, 0>>) => InBounds(fn_ret.data)

(***************************************************************************)
(* deep_dream and deep_dream_video                                         *)
(***************************************************************************)
\* line 325
LR == 90
\* line 323: 1 / 1.4
PYRAMID_RATIO == <<5, 7>>

\* a plausible slip: the walk stops one level short of the finest
ReversedWithoutFinest(seq) ==
    IF Len(seq) <= 1 THEN seq
    ELSE [j \in 1..(Len(seq) - 1) |-> seq[Len(seq) + 1 - j]]

\* line 335: reversed(img_pyramid)
Reversed(seq) == [j \in 1..Len(seq) |-> seq[Len(seq) + 1 - j]]

\* a plausible slip: randint's upper end taken as inclusive
JitterOffsetsOneMore(jitter) == (0 - jitter)..(jitter + 1)

\* line 344: np.random.randint(-jitter, jitter + 1), upper end excluded
JitterOffsets(jitter) == (0 - jitter)..jitter

\* line 331: np.zeros_like
ZerosLike(image) ==
    [y \in 1..ImgH(image) |-> [x \in 1..ImgW(image) |-> [c \in 1..ImgC(image) |-> 0]]]

\* what stands for the ValueError of numpy on operands of different shapes
ShapeError == <<>>

\* line 341: a + b on arrays
ImgAdd(a, b) ==
    IF ImgShape(a) # ImgShape(b) THEN ShapeError
    ELSE [y \in 1..ImgH(a) |-> [x \in 1..ImgW(a) |-> [c \in 1..ImgC(a) |->
             FAdd(a[y][x][c], b[y][x][c])]]]

\* line 357: a - b on arrays
ImgSub(a, b) ==
    IF ImgShape(a) # ImgShape(b) THEN ShapeError
    ELSE [y \in 1..ImgH(a) |-> [x \in 1..ImgW(a) |-> [c \in 1..ImgC(a) |->
             FSub(a[y][x][c], b[y][x][c])]]]

\* a plausible slip: the result itself is carried, the base not subtracted
DetailOfResultOnly(result, base) == result

\* line 357: detail = pytorch_output_adapter(input_tensor) - octave_base
DetailOf(result, base) == ImgSub(result, base)

RECURSIVE SumSeq(_)
SumSeq(seq) == IF Len(seq) = 0 THEN 0 ELSE seq[1] + SumSeq(Tail(seq))

PlaneSum(data, c) == SumSeq([y \in 1..TenH(data) |-> SumSeq(data[1][c][y])])

HasNaN(data) ==
    \E c \in 1..TenC(data), y \in 1..TenH(data), x \in 1..TenW(data) :
        IsNaN(data[1][c][y][x])

\* lines 260-266, the network and its loss.  The network is a function
\* fixed outside the program; the model has three, each with a gradient
\* that is constant over a channel plane:
\*   "dead"      its target activation is 0 for every input: gradient 0;
\*   "mean"      one unit per channel, the mean of the plane: the gradient
\*               of sum(a^2)/2 is a_c / (H W) on plane c;
\*   "contrast"  one unit, the mean of plane 1 minus that of plane 2.
\* The gradients are given up to the positive factor 1 / (H W), which the
\* division of line 277 removes.  A NaN input gives a NaN gradient.
Networks == {"dead", "mean", "contrast"}

PlaneMean(data, c) == RDiv(PlaneSum(data, c), TenH(data) * TenW(data))

NetworkGrad(network, data) ==
    IF HasNaN(data) THEN <<NaN, NaN, NaN>>
    ELSE IF network = "dead" THEN <<0, 0, 0>>
    ELSE IF network = "mean" THEN [c \in 1..3 |-> PlaneMean(data, c)]
    ELSE <<PlaneMean(data, 1) - PlaneMean(data, 2),
           PlaneMean(data, 2) - PlaneMean(data, 1), 0>>

\* One axis of nd.affine_transform(frame, [1 - s, 1 - s, 1], [h s/2, w s/2, 0],
\* order=1), s = 0.05: output index o (0-based) reads the input at
\* 0.95 o + 0.025 size = (38 o + size) / 40, between its floor and the next
\* index
AffineTap(o, size) ==
    LET den == 40
        num == 38 * o + size
        f == num \div den
    IN  [i0 |-> f + 1, i1 |-> Min(f + 2, size), a |-> num - f * den, den |-> den]

\* line 409
affine_transform(image) ==
    [y \in 1..ImgH(image) |->
      [x \in 1..ImgW(image) |->
        [c \in 1..ImgC(image) |->
          LET tx == AffineTap(x - 1, ImgW(image))
              ty == AffineTap(y - 1, ImgH(image))
          IN  Blend(image[ty.i0][tx.i0][c], image[ty.i0][tx.i1][c],
                    image[ty.i1][tx.i0][c], image[ty.i1][tx.i1][c], tx, ty)]]]

\* lines 157-169 with channel_last: de-normalize, clip to [0, 1], times 255
\* cut to uint8.  The cast of a NaN to uint8 is not defined: nan_cast is
\* what the build makes of it.
post_process_image(dump_img, nan_cast) ==
    [y \in 1..ImgH(dump_img) |->
      [x \in 1..ImgW(dump_img) |->
        [c \in 1..ImgC(dump_img) |->
          IF IsNaN(dump_img[y][x][c]) THEN nan_cast
          ELSE LET v == RDiv(dump_img[y][x][c] * IMAGENET_STD_1[c], Scale)
                        + IMAGENET_MEAN_1[c]
               IN  (Max(0, Min(Scale, v)) * 255) \div Scale]]]

\* line 176: dump_img[:, :, ::-1]
ChannelsReversed(image) ==
    [y \in 1..ImgH(image) |->
      [x \in 1..ImgW(image) |->
        [c \in 1..ImgC(image) |-> image[y][x][ImgC(image) + 1 - c]]]]

\* the level sizes of a frame of h rows and w columns all admit the
\* reflect padding of the smoothing
Paddable(h, w, levels) ==
    LET pyr == create_image_pyramid(ZerosLike(TestImage(h, w, 2)), levels, PYRAMID_RATIO)
    IN  \A k \in 1..Len(pyr) : ImgH(pyr[k]) >= MinDim /\ ImgW(pyr[k]) >= MinDim

\* the state after line 400: a frame in display range
Init ==
    /\ fn_pc = "idle" /\ fn_arg = <<>> /\ fn_ret = <<>>
    /\ gs = <<>> /\ gs_in = <<>> /\ gs_out = <<>>
    /\ pc = "call"
    /\ \E h \in (MaxDim - 1)..MaxDim, k \in 0..1 :
          /\ frame = TestImage(h, MaxDim, k)
          /\ \E levels \in 1..MaxPyramidSize :
                /\ Paddable(h, MaxDim, levels)
                /\ pyramid_size = levels
    /\ n_iter \in 1..MaxIter
    /\ net \in Networks
    /\ frame_idx = 0 /\ written = <<>> /\ frame_rep = 0
    /\ img = <<>> /\ base_img = <<>> /\ img_pyramid = <<>> /\ detail = <<>>
    /\ best_img = <<>> /\ octave = 0 /\ octave_base = <<>> /\ input_tensor = <<>>
    /\ i = 0 /\ h_shift = 0 /\ w_shift = 0
    /\ log = <<>> /\ left = <<>> /\ loss_grad = <<>> /\ used_grad = <<>>

\* line 405, the call, and lines 316-333
DeepDreamEnter ==
    /\ pc = "call"
    /\ img' = frame
    /\ base_img' = preprocess(frame)
    /\ img_pyramid' = create_image_pyramid(base_img', pyramid_size, PYRAMID_RATIO)
    /\ detail' = ZerosLike(img_pyramid'[Len(img_pyramid')])
    /\ best_img' = <<>>
    /\ octave' = 0
    /\ pc' = "octave"
    /\ UNCHANGED <<octave_base, left, videoVars, configVars, iterVars, fnVars, gsVars>>

\* lines 335-342: the next octave of reversed(img_pyramid)
OctaveEnter ==
    /\ pc = "octave"
    /\ octave < Len(Reversed(img_pyramid))
    /\ \E base \in {Reversed(img_pyramid)[octave + 1]} :
          \E h \in {ImgH(base)}, w \in {ImgW(base)} :
             \E detail1 \in {IF octave > 0 THEN ResizeTo(detail, w, h) ELSE detail} :
                \E input_img \in {ImgAdd(base, detail1)} :
                   /\ octave_base' = base
                   /\ detail' = detail1
                   /\ input_tensor' = IF input_img = ShapeError THEN input_tensor
                                      ELSE pytorch_input_adapter(input_img)
                   /\ pc' = IF input_img = ShapeError THEN "raised" ELSE "iter"
    /\ i' = 0
    /\ log' = <<>>
    /\ UNCHANGED <<img, base_img, img_pyramid, best_img, octave, left,
                   h_shift, w_shift, loss_grad, used_grad,
                   videoVars, configVars, fnVars, gsVars>>

\* lines 343-345: draw the offsets, shift
JitterShift ==
    /\ pc = "iter"
    /\ i < n_iter
    /\ \E dh \in JitterOffsets(MaxJitter), dw \in JitterOffsets(MaxJitter) :
          /\ h_shift' = dh
          /\ w_shift' = dw
          /\ input_tensor' = random_circular_spatial_shift(input_tensor, dh, dw, FALSE)
          /\ log' = <<[op |-> "shift", dh |-> dh, dw |-> dw, cnt |-> i]>>
    /\ pc' = "ascent"
    /\ UNCHANGED <<i, loss_grad, used_grad, octaveVars, videoVars, configVars,
                   fnVars, gsVars>>

\* line 347: gradient_ascent(net, input_tensor, lr, i)
AscentStep ==
    /\ pc = "ascent"
    /\ \E g \in {NetworkGrad(net, input_tensor.data)} :
          /\ loss_grad' = g
          /\ used_grad' = Backward(input_tensor.grad, g)
          /\ input_tensor' = gradient_ascent(input_tensor, g, LR, i)
    /\ log' = Append(log, [op |-> "ascent", dh |-> 0, dw |-> 0, cnt |-> i])
    /\ pc' = "unshift"
    /\ UNCHANGED <<i, h_shift, w_shift, octaveVars, videoVars, configVars,
                   fnVars, gsVars>>

\* line 349 and the step of the loop of line 343
JitterUndo ==
    /\ pc = "unshift"
    /\ input_tensor' = random_circular_spatial_shift(input_tensor, h_shift, w_shift, TRUE)
    /\ log' = Append(log, [op |-> "unshift", dh |-> h_shift, dw |-> w_shift, cnt |-> i])
    /\ i' = i + 1
    /\ pc' = "iter"
    /\ UNCHANGED <<h_shift, w_shift, loss_grad, used_grad, octaveVars, videoVars,
                   configVars, fnVars, gsVars>>

\* lines 357-360: the iterations are done
OctaveLeave ==
    /\ pc = "iter"
    /\ i >= n_iter
    /\ detail' = DetailOf(pytorch_output_adapter(input_tensor), octave_base)
    /\ left' = detail'
    /\ best_img' = pytorch_output_adapter(input_tensor)
    /\ octave' = octave + 1
    /\ pc' = "octave"
    /\ UNCHANGED <<img, base_img, img_pyramid, octave_base, iterVars, videoVars,
                   configVars, fnVars, gsVars>>

\* line 362 and the assignment of line 405.  The offsets, the loop index and
\* the events of the last iteration end with the call.
DeepDreamReturn ==
    /\ pc = "octave"
    /\ octave >= Len(Reversed(img_pyramid))
    /\ frame' = best_img
    /\ frame_rep' = frame_rep + 1
    /\ h_shift' = 0 /\ w_shift' = 0 /\ i' = 0 /\ log' = <<>>
    /\ pc' = "returned"
    /\ UNCHANGED <<frame_idx, written, input_tensor, loss_grad, used_grad,
                   octaveVars, configVars, fnVars, gsVars>>

\* lines 406-407: save_and_maybe_display_image(frame, channel_last=True, ...)
SaveFrame ==
    /\ pc = "returned"
    /\ \E nan_cast \in {0, 255} :
          written' = [name |-> frame_idx,
                      pixels |-> ChannelsReversed(post_process_image(frame, nan_cast)),
                      rep |-> frame_rep - 1]
    /\ pc' = "saved"
    /\ UNCHANGED <<frame, frame_idx, frame_rep, octaveVars, iterVars, configVars,
                   fnVars, gsVars>>

\* line 409 and the step of the loop of line 403
TransformFrame ==
    /\ pc = "saved"
    /\ frame' = affine_transform(frame)
    /\ frame_idx' = frame_idx + 1
    /\ pc' = IF frame_idx + 1 < MaxFrames THEN "call" ELSE "end"
    /\ UNCHANGED <<written, frame_rep, octaveVars, iterVars, configVars, fnVars, gsVars>>

Next ==
    \/ DeepDreamEnter
    \/ OctaveEnter
    \/ JitterShift
    \/ AscentStep
    \/ JitterUndo
    \/ OctaveLeave
    \/ DeepDreamReturn
    \/ SaveFrame
    \/ TransformFrame

Spec == Init /\ [][Next]_vars

Event(op, dh, dw, cnt) == [op |-> op, dh |-> dh, dw |-> dw, cnt |-> cnt]

\* C5: a call of deep_dream with pyramid_size >= 1 and n_iter >= 1 returns
\* after the octave of the finest level, level 0 of the pyramid, which is the
\* preprocessed input: what it returns is the result of that octave, with the
\* (height, width, channels) of the input image, and every level was walked.
EndToEndResult ==
    /\ octave <= Len(img_pyramid)
    /\ pc = "returned" =>
          /\ Len(img_pyramid) = pyramid_size
          /\ octave = pyramid_size
          /\ img_pyramid[1] = base_img
          /\ octave_base = img_pyramid[1]
          /\ frame = pytorch_output_adapter(input_tensor)
          /\ ImgShape(frame) = ImgShape(img)
          /\ ImgShape(frame) = ImgShape(img_pyramid[1])

\* a call over two levels and two iterations has returned, on a frame that
\* is not square
EndToEndResultWitness ==
    /\ pc = "returned"
    /\ pyramid_size = 2
    /\ n_iter = 2
    /\ ImgH(frame) # ImgW(frame)
    /\ ImgShape(img_pyramid[2]) # ImgShape(frame)
    /\ net = "mean"

\* C6: when an ascent step of the driver starts, the tensor has no gradient
\* or a gradient of zero, so the gradient the step uses is that of the step's
\* own loss; and the step leaves the gradient reset to zero.
GradientResetInvariant ==
    /\ pc = "ascent" => input_tensor.grad \in {NoGrad, <<0, 0, 0>>}
    /\ pc = "unshift" =>
          /\ used_grad = loss_grad
          /\ input_tensor.grad = <<0, 0, 0>>

\* the second step of the second octave has run on a gradient that is not
\* zero
GradientResetInvariantWitness ==
    /\ pc = "unshift"
    /\ octave = 1
    /\ i = 1
    /\ ~IsNaN(loss_grad[1])
    /\ loss_grad # <<0, 0, 0>>
    /\ used_grad = loss_grad

DetailResidualCarry ==
    /\ pc # "raised"
    /\ (pc = "octave" /\ octave = 0) =>
          detail = ZerosLike(img_pyramid[Len(img_pyramid)])
    /\ (pc = "octave" /\ octave > 0) =>
          /\ best_img = pytorch_output_adapter(input_tensor)
          /\ detail = ImgSub(best_img, octave_base)
          /\ detail # ShapeError
          /\ left = detail
    /\ (pc = "iter" /\ i = 0) =>
          /\ ImgShape(detail) = ImgShape(octave_base)
          /\ octave = 0 => detail = ZerosLike(octave_base)
          /\ octave > 0 => detail = ResizeTo(left, ImgW(octave_base), ImgH(octave_base))
          /\ input_tensor = pytorch_input_adapter(ImgAdd(octave_base, detail))

\* the second octave is entered with a residual that is not zero, resized
\* from another shape
DetailResidualCarryWitness ==
    /\ pc = "iter"
    /\ i = 0
    /\ octave = 1
    /\ ImgShape(left) # ImgShape(detail)
    /\ detail # ZerosLike(detail)
    /\ ~HasNaN(input_tensor.data)

InDisplayRange(image) ==
    \A y \in 1..ImgH(image), x \in 1..ImgW(image), c \in 1..ImgC(image) :
        /\ ~IsNaN(image[y][x][c])
        /\ 0 <= image[y][x][c]
        /\ image[y][x][c] <= Scale

\* C10: for every frame index the image given to deep_dream is in the
\* display range [0, 1], the normalization of preprocess not yet applied to
\* it, so that the normalization is applied once and undone once.
RepresentationConsistency ==
    pc = "call" => (frame_rep = 0 /\ InDisplayRange(frame))

\* what the driver does guarantee: the first frame is in the display range
FirstFrameInDisplayRange ==
    (pc = "call" /\ frame_idx = 0) => (frame_rep = 0 /\ InDisplayRange(frame))

====
